---- MODULE Spec2Model ----
(***************************************************************************)
(* Turn-taking voice agent: coordinator (agent.ts), speech synthesis       *)
(* pipeline (tts.ts), silence watchdog (silence.ts) and the transcription  *)
(* client (stt.ts), as one state machine.  Every action is one JavaScript  *)
(* handler or continuation run to completion on the single event loop;     *)
(* the awaits inside speak() are the points where actions interleave.      *)
(***************************************************************************)
EXTENDS Integers, Sequences, FiniteSets, TLC

\* ---------------------------------------------------------------- bounds
MaxSpeaks == 3          \* speak() executions started in one run
MaxInFlight == 2        \* speak() executions unfinished at the same time
WatchdogTicks == 2      \* the watchdog duration, in clock ticks

\* ------------------------------------------------------ program constants
SAMPLES_PER_FRAME == 480
MIN_MP3_BYTES == 100
SPEECH_RMS_THRESHOLD == 300
KEEPALIVE_MS == 8000
RECONNECT_MS == 1000

\* ------------------------------------------------------------ input sets
Mp3Sizes == {99, 100}                  \* payload sizes the backend returns
PcmByteLens == {0, 2001}         \* byte lengths ffmpeg produces
Transcripts == {"hello", "hi"}
Frames == {<<0, 0>>, <<300, 300>>, <<301, -301>>}
Messages ==
  [parses : {TRUE}, transcript : Transcripts, speech_final : {TRUE}]
    \cup {[parses |-> TRUE, transcript |-> "hello", speech_final |-> FALSE],
          [parses |-> TRUE, transcript |-> "", speech_final |-> TRUE],
          [parses |-> FALSE, transcript |-> "", speech_final |-> FALSE]}

Ids == 1..MaxInFlight

GREETING == <<"Hello! I am ready. Please speak and I will repeat what you say.">>
REMINDER == <<"Are you still there?">>

VARIABLES
  mainpc,        \* position of startAgent()
  audioSource,   \* tts.ts: roomInstance/audioSource registered
  speakCallback, \* silence.ts: speakCallback is set
  audioStream,   \* agent.ts: a remote audio track's frame loop is running
  state,         \* agent.ts: the coordinator's own AgentState
  silState,      \* silence.ts: the watchdog module's AgentState
  isSpeaking,    \* tts.ts: the interruption flag
  speaks,        \* the unfinished speak() executions, in the order they began
  nSpeaks,       \* speak() executions started so far
  timers,        \* pending silence timeouts, time left of each, oldest first
  silenceTimer,  \* silence.ts: index in timers of the handle's timer, 0 if none
  wsState,       \* stt.ts: the socket: "NONE", "CONNECTING", "OPEN", "CLOSED"
  keepaliveTimer,\* stt.ts: index in intervals of the handle's interval, 0 if null
  reconnectTimer,\* stt.ts: the pending reconnect timeouts, the delay of each
  intervals,     \* stt.ts: the running keepalive intervals, the period of each
  stale,         \* stt.ts: sockets still alive that ws no longer refers to
  wiretap,       \* history: what goes to the socket is being recorded
  sttIn,         \* history: the buffers the last step handed to sendAudio
  sttMsg,        \* history: the socket message the last step handled
  sttOut,        \* history: what the last step gave to ws.send, in order
  sinceArm,      \* history: ticks since the last resetSilenceTimer() call
  idle,          \* history: ticks of silence in quiescent Listening
  stateLog,      \* history: the changes of state since the latest reply began
  dropped        \* history: the last step handed onTranscript a final transcript it ignored

vars == <<mainpc, audioSource, speakCallback, audioStream, state, silState,
          isSpeaking, speaks, nSpeaks, timers, silenceTimer, wsState, keepaliveTimer,
          reconnectTimer, intervals, stale, wiretap, sttIn, sttMsg, sttOut,
          sinceArm, idle, stateLog, dropped>>

sttVars == <<wsState, keepaliveTimer, reconnectTimer, intervals, stale>>
bootVars == <<mainpc, audioSource, speakCallback, audioStream>>
\* everything the program itself holds: all but the history variables
progVars == <<mainpc, audioSource, speakCallback, audioStream, state, silState,
              isSpeaking, speaks, nSpeaks, timers, silenceTimer, wsState,
              keepaliveTimer, reconnectTimer, intervals, stale>>

\* ------------------------------------------------------------- helpers
Min(a, b) == IF a < b THEN a ELSE b

RECURSIVE SumSq(_)
SumSq(data) ==
  IF data = <<>> THEN 0 ELSE Head(data) * Head(data) + SumSq(Tail(data))

hasAudioEnergyAtOrAbove(frame) ==
  SumSq(frame) >= SPEECH_RMS_THRESHOLD * SPEECH_RMS_THRESHOLD * Len(frame)

\* Math.sqrt(sumSq / data.length) > SPEECH_RMS_THRESHOLD, squared on both sides
hasAudioEnergy(frame) ==
  SumSq(frame) > SPEECH_RMS_THRESHOLD * SPEECH_RMS_THRESHOLD * Len(frame)

RemoveAt(s, i) == [j \in 1..(Len(s) - 1) |-> IF j < i THEN s[j] ELSE s[j + 1]]

\* no frame in the sink's hands
NoFrame == [first |-> 0, length |-> 0, byteOffset |-> 0, copy |-> FALSE]

\* int16Data.subarray(start, end): a view on the same buffer
subarray(len, start, end) ==
  [first |-> Min(start, len), length |-> Min(end, len) - Min(start, len),
   byteOffset |-> 2 * Min(start, len), copy |-> FALSE]

\* int16Data.slice(start, end): the samples from start up to end, or up to the
\* array's end, copied into a buffer of their own
slice(len, start, end) ==
  [first |-> Min(start, len), length |-> Min(end, len) - Min(start, len),
   byteOffset |-> 0, copy |-> TRUE]

NoSpeak ==
  [pc |-> "none", kind |-> "none", text |-> <<>>, mp3 |-> -1, pcm |-> -1,
   off |-> 0, sent |-> 0, handed |-> 0, stopped |-> FALSE, late |-> FALSE,
   resets |-> 0, frame |-> NoFrame,
   result |-> "pending", path |-> "none", stateAtFetch |-> "none"]

InFlight(s) == s.pc \in {"fetch", "convert", "send"}
Unfinished(s) == s.pc \in {"fetch", "convert", "send", "settled"}

HasFree == nSpeaks < MaxSpeaks /\ \E id \in Ids : speaks[id].pc = "none"
NextId == CHOOSE id \in Ids :
            speaks[id].pc = "none" /\ \A j \in Ids : j < id => speaks[j].pc # "none"


\* ------------------------------------------------- silence.ts: watchdog
ClearTimeoutSkipped(ts, h) == ts

\* clearTimeout(silenceTimer): drops the handle's timer if it is still pending
ClearTimeout(ts, h) == IF h = 0 THEN ts ELSE RemoveAt(ts, h)

\* resetSilenceTimer(): clearTimeout, then setTimeout(..., 20000)
ArmedTimers(ts, h) == Append(ClearTimeout(ts, h), WatchdogTicks)

TimersAfterExpireRepeating(ts, i) == Append(RemoveAt(ts, i), WatchdogTicks)

\* the timer list once the due timer i has been taken off for its callback
TimersAfterExpire(ts, i) == RemoveAt(ts, i)

\* the handle after timer i fired: it keeps pointing at its own timer
HandleAfterExpire(h, i) == IF h = i THEN 0 ELSE IF h > i THEN h - 1 ELSE h

\* the timer callback's test before it speaks
ReminderDue(st, cb) == st = "LISTENING" /\ cb

\* ------------------------------------------------------ tts.ts: speak()
TooSmallEmptyOnly(n) == n = 0

\* mp3Buffer.byteLength < 100
TooSmall(n) == n < MIN_MP3_BYTES

\* new Int16Array(buffer, byteOffset, byteLength / 2).length
Int16Length(bytes) == bytes \div 2

CatchRethrows == "rejected"

\* what the catch clause makes of an error: it is logged and swallowed
CatchResult == "resolved"

FinallyStateOnSuccess(cur, path) == IF path = "error" THEN cur ELSE "LISTENING"

\* finally { isSpeaking = false; updateState(AgentState.LISTENING); }
FinallyFlag(cur, path) == FALSE
FinallyState(cur, path) == "LISTENING"
FinallyRuns(path) == 1

\* speak() leaving its try block by `path`: the finally clause has run and the
\* promise is settled
Settle(s, path, res) ==
  [s EXCEPT !.pc = "settled", !.path = path, !.result = res,
            !.resets = s.resets + FinallyRuns(path),
            !.text = <<>>, !.off = 0, !.stateAtFetch = "none",
            !.frame = NoFrame]

\* the frame loop from s.off up to its next captureFrame, break or end
LoopStep(s, flag) ==
  IF s.off + SAMPLES_PER_FRAME <= Int16Length(s.pcm)
  THEN IF ~flag
       THEN Settle(s, "interrupted", "resolved")
       ELSE [s EXCEPT !.pc = "send", !.handed = s.handed + 1,
                      !.late = s.late \/ s.stopped,
                      !.frame = slice(Int16Length(s.pcm), s.off,
                                      s.off + SAMPLES_PER_FRAME)]
  ELSE Settle(s, "complete", "resolved")

\* speak() resumed after `await fetchGTTS(text)`
AfterFetch(s, out, flag) ==
  IF out = -1 THEN Settle(s, "error", CatchResult)
  ELSE IF TooSmall(out) THEN Settle([s EXCEPT !.mp3 = out], "small", "resolved")
  ELSE IF ~flag THEN Settle([s EXCEPT !.mp3 = out], "interrupted", "resolved")
  ELSE [s EXCEPT !.pc = "convert", !.mp3 = out, !.text = <<>>]

\* speak() resumed after `await convertMp3ToPcm(mp3Buffer)`
AfterConvert(s, out, flag) ==
  IF out = -1 THEN Settle(s, "error", CatchResult)
  ELSE IF ~flag THEN Settle([s EXCEPT !.pcm = out], "interrupted", "resolved")
  ELSE IF out = 0 THEN Settle([s EXCEPT !.pcm = out], "empty", "resolved")
  ELSE LoopStep([s EXCEPT !.pcm = out, !.off = 0, !.sent = 0], flag)

\* speak() resumed after `await audioSource.captureFrame(frame)`
AfterCapture(s, ok, flag) ==
  IF ~ok THEN Settle(s, "error", CatchResult)
  ELSE LoopStep([s EXCEPT !.off = s.off + SAMPLES_PER_FRAME,
                          !.sent = s.sent + 1], flag)

SpeakBeginUnguarded(kind, text, registered, st) ==
  [NoSpeak EXCEPT !.pc = "fetch", !.kind = kind, !.text = text,
                  !.stateAtFetch = st]

\* speak(text) up to its first await
SpeakBegin(kind, text, registered, st) ==
  IF ~registered
  THEN [NoSpeak EXCEPT !.pc = "settled", !.kind = kind, !.text = text,
                       !.path = "skipped", !.result = "resolved"]
  ELSE [NoSpeak EXCEPT !.pc = "fetch", !.kind = kind, !.text = text,
                       !.stateAtFetch = st]

\* stopSpeaking() seen from the executions in flight
MarkStopped(sp) ==
  [id \in Ids |-> IF InFlight(sp[id]) THEN [sp[id] EXCEPT !.stopped = TRUE]
                  ELSE sp[id]]

\* speak() has returned to its caller: its execution is over, and the ones
\* that began after it stay in the order they began
Returned(sp, id) ==
  [j \in Ids |-> IF j < id THEN sp[j]
                 ELSE IF j < MaxInFlight THEN sp[j + 1] ELSE NoSpeak]

\* --------------------------------------------------- agent.ts: coordinator
TranscriptGuardOff(st) == TRUE
ReplyTextRaw(t) == <<t>>

\* if (state !== AgentState.LISTENING) return;
TranscriptGuard(st) == st = "LISTENING"
\* `You said: ${text}`
ReplyText(t) == <<"You said: ", t>>
\* the values the transcript handler assigns to state before it calls speak()
ReplyStates == <<"PROCESSING", "SPEAKING">>

IsFinalOrInterim(m) == m.parses /\ m.transcript # ""

\* stt.ts: the message handler's test for calling onTranscript
IsFinal(m) == m.parses /\ m.transcript # "" /\ m.speech_final = TRUE

\* ------------------------------------------- stt.ts: transcription client
\* let dead = false: never assigned afterwards
dead == FALSE

\* the two bytes of a 16-bit sample in the frame's buffer, low byte first
SampleBytes(v) == LET u == (v + 65536) % 65536 IN <<u % 256, u \div 256>>

\* Buffer.from(frame.data.buffer, frame.data.byteOffset, frame.data.byteLength)
RECURSIVE PcmBytes(_)
PcmBytes(data) ==
  IF data = <<>> THEN <<>> ELSE SampleBytes(Head(data)) \o PcmBytes(Tail(data))

ForwardedWhenListening(st, frame) ==
  IF st = "LISTENING" THEN <<PcmBytes(frame)>> ELSE <<>>

\* the buffers the frame loop hands to stt.sendAudio for one frame
Forwarded(st, frame) == <<PcmBytes(frame)>>

sendAudioUnguarded(ws, bufs) ==
  [i \in 1..Len(bufs) |-> [type |-> "audio", data |-> bufs[i]]]

\* sendAudio(data): ws.send(data) if the socket is open
sendAudio(ws, bufs) ==
  IF ws = "OPEN" THEN [i \in 1..Len(bufs) |-> [type |-> "audio", data |-> bufs[i]]]
  ELSE <<>>

KeepaliveSentUnguarded(ws) == <<[type |-> "KeepAlive", data |-> <<>>]>>

\* the keepalive callback: ws.send(JSON.stringify({ type: "KeepAlive" })) if open
KeepaliveSent(ws) ==
  IF ws = "OPEN" THEN <<[type |-> "KeepAlive", data |-> <<>>]>> ELSE <<>>

ClearIntervalSkipped(ivs, h) == ivs

\* clearInterval(keepaliveTimer), if the handle is set
ClearInterval(ivs, h) == IF h = 0 THEN ivs ELSE RemoveAt(ivs, h)

\* the open handler: clearInterval, then setInterval(..., KEEPALIVE_MS)
IntervalsAfterOpen(ivs, h) == Append(ClearInterval(ivs, h), KEEPALIVE_MS)

ReconnectsOnErrorToo == <<RECONNECT_MS>>

\* reconnect timeouts the error handler schedules: none
ReconnectsOnError == <<>>

\* the close handler: if (!dead) setTimeout(connect, RECONNECT_MS)
ReconnectsOnClose(d) == IF d THEN <<>> ELSE <<RECONNECT_MS>>

\* what a step leaves in the history of what passed between it and the socket
Tapped(tap, msgs) == IF tap THEN msgs ELSE <<>>

\* the socket ws refers to has not closed yet
Live(ws) == ws \in {"CONNECTING", "OPEN", "FAILED"}

\* the log of state's changes, one more assignment made
Logged(log, v) ==
  IF log = <<>> \/ log[Len(log)] = v THEN log ELSE Append(log, v)

Quiescent ==
  /\ mainpc = "ready"
  /\ state = "LISTENING"
  /\ silState = "LISTENING"
  /\ \A id \in Ids : ~Unfinished(speaks[id])

\* ----------------------------------------------------------------- Init
\* the modules as loaded, before startAgent() runs
Loaded ==
  /\ mainpc = "boot"
  /\ audioSource = FALSE
  /\ speakCallback = FALSE
  /\ audioStream = FALSE
  /\ state = "LISTENING"
  /\ silState = "LISTENING"
  /\ isSpeaking = FALSE
  /\ speaks = [id \in Ids |-> NoSpeak]
  /\ nSpeaks = 0
  /\ timers = <<>>
  /\ silenceTimer = 0
  /\ wsState = "NONE"
  /\ keepaliveTimer = 0
  /\ reconnectTimer = <<>>
  /\ intervals = <<>>
  /\ stale = 0
  /\ sttIn = <<>>
  /\ sttMsg = <<>>
  /\ sttOut = <<>>
  /\ sinceArm = 0
  /\ idle = 0
  /\ stateLog = <<>>
  /\ dropped = FALSE

Init == Loaded /\ wiretap = FALSE

\* -------------------------------------------------- startAgent(): startup
\* createToken, new Room, setSpeakCallback(speak), then await room.connect
Boot ==
  /\ mainpc = "boot"
  /\ mainpc' = "connecting"
  /\ speakCallback' = TRUE
  /\ UNCHANGED <<audioSource, audioStream, state, silState, isSpeaking, speaks,
                 timers, silenceTimer, sttVars, sinceArm, idle, stateLog>>
  /\ dropped' = FALSE
  /\ UNCHANGED wiretap
  /\ sttIn' = <<>>
  /\ sttMsg' = <<>>
  /\ sttOut' = <<>>
  /\ UNCHANGED nSpeaks

\* room.connect settles: registerRoom(room) runs up to await publishTrack, or
\* the catch clause exits the process
Connected(ok) ==
  /\ mainpc = "connecting"
  /\ mainpc' = IF ok THEN "registering" ELSE "exited"
  /\ audioSource' = ok
  /\ UNCHANGED <<speakCallback, audioStream, state, silState, isSpeaking, speaks,
                 timers, silenceTimer, sttVars, sinceArm, idle, stateLog>>
  /\ dropped' = FALSE
  /\ UNCHANGED wiretap
  /\ sttIn' = <<>>
  /\ sttMsg' = <<>>
  /\ sttOut' = <<>>
  /\ UNCHANGED nSpeaks

\* publishTrack settles: startSTT, room.on(TrackSubscribed), resetSilenceTimer
\* and the greeting's speak() up to its first await, or process.exit
Registered(ok) ==
  /\ mainpc = "registering"
  /\ IF ok
     THEN /\ mainpc' = "greeting"
          /\ wsState' = "CONNECTING"
          /\ timers' = ArmedTimers(timers, silenceTimer)
          /\ silenceTimer' = Len(timers')
          /\ sinceArm' = 0
          /\ speaks' = [speaks EXCEPT
                          ![NextId] = SpeakBegin("greeting", GREETING, audioSource, state)]
          /\ nSpeaks' = nSpeaks + 1
          /\ isSpeaking' = (audioSource \/ isSpeaking)
          /\ silState' = IF audioSource THEN "SPEAKING" ELSE silState
          /\ idle' = 0
          /\ UNCHANGED <<audioSource, speakCallback, audioStream, state,
                         keepaliveTimer, reconnectTimer, intervals, stale,
                         stateLog>>
     ELSE /\ mainpc' = "exited"
          /\ UNCHANGED <<audioSource, speakCallback, audioStream, state, silState,
                         isSpeaking, speaks, nSpeaks, timers, silenceTimer, sttVars,
                         sinceArm, idle, stateLog>>
  /\ dropped' = FALSE
  /\ UNCHANGED wiretap
  /\ sttIn' = <<>>
  /\ sttMsg' = <<>>
  /\ sttOut' = <<>>

\* the process is up, and no caller of a settled speak() is waiting to resume:
\* that continuation is a microtask, which runs before the next timer, socket
\* or stream event is handled
Running ==
  /\ mainpc \in {"greeting", "ready"}
  /\ \A id \in Ids : speaks[id].pc # "settled"

HandlerRegisteredAfterGreeting(pc) == pc = "ready"

\* the places of startAgent() at which room.on(RoomEvent.TrackSubscribed, ...)
\* has run: it comes before `await speak(greeting)`
HandlerRegistered(pc) == pc \in {"greeting", "ready"}

\* RoomEvent.TrackSubscribed with an audio track: its frame loop starts
TrackSubscribed ==
  /\ Running
  /\ HandlerRegistered(mainpc)
  /\ ~audioStream
  /\ audioStream' = TRUE
  /\ UNCHANGED <<mainpc, audioSource, speakCallback, state, silState, isSpeaking,
                 speaks, timers, silenceTimer, sttVars, sinceArm, idle, stateLog>>
  /\ dropped' = FALSE
  /\ UNCHANGED wiretap
  /\ sttIn' = <<>>
  /\ sttMsg' = <<>>
  /\ sttOut' = <<>>
  /\ UNCHANGED nSpeaks

\* ------------------------------------------- one iteration of the frame loop
OnFrame(frame) ==
  LET energy == hasAudioEnergy(frame)
      stop == isSpeaking /\ energy
  IN /\ Running
     /\ audioStream
     /\ isSpeaking' = IF stop THEN FALSE ELSE isSpeaking
     /\ speaks' = IF stop THEN MarkStopped(speaks) ELSE speaks
     /\ state' = IF stop THEN "LISTENING" ELSE state
     /\ silState' = IF stop THEN "LISTENING" ELSE silState
     /\ stateLog' = IF stop THEN Logged(stateLog, "LISTENING") ELSE stateLog
     /\ timers' = IF energy THEN ArmedTimers(timers, silenceTimer) ELSE timers
     /\ silenceTimer' = IF energy THEN Len(timers') ELSE silenceTimer
     /\ sinceArm' = IF energy THEN 0 ELSE sinceArm
     /\ idle' = IF energy THEN 0 ELSE idle
     /\ sttIn' = Tapped(wiretap, Forwarded(state', frame))
     /\ sttOut' = Tapped(wiretap, sendAudio(wsState, Forwarded(state', frame)))
     /\ UNCHANGED <<bootVars, sttVars>>
  /\ dropped' = FALSE
  /\ UNCHANGED wiretap
  /\ sttMsg' = <<>>
  /\ UNCHANGED nSpeaks

\* ------------------------------- stt.ts message handler and onTranscript
OnMessage(m) ==
  /\ Running
  /\ wsState = "OPEN"
  /\ dropped' = (IsFinal(m) /\ ~TranscriptGuard(state))
  /\ UNCHANGED wiretap
  /\ sttIn' = <<>>
  /\ sttMsg' = Tapped(wiretap, <<m>>)
  /\ sttOut' = <<>>
  /\ IF IsFinal(m) /\ TranscriptGuard(state)
     THEN /\ HasFree
          /\ state' = ReplyStates[Len(ReplyStates)]
          /\ stateLog' = <<state>> \o ReplyStates
          /\ speaks' = [speaks EXCEPT
                 ![NextId] = SpeakBegin("reply", ReplyText(m.transcript),
                                        audioSource, state')]
          /\ nSpeaks' = nSpeaks + 1
          /\ isSpeaking' = (audioSource \/ isSpeaking)
          /\ silState' = IF audioSource THEN "SPEAKING" ELSE state'
          /\ idle' = 0
          /\ UNCHANGED <<bootVars, timers, silenceTimer, sttVars, sinceArm>>
     ELSE UNCHANGED <<bootVars, state, silState, isSpeaking, speaks, nSpeaks,
                      timers, silenceTimer, sttVars, sinceArm, idle, stateLog>>

\* ----------------------------------------------- speak(): its three awaits
SpeakResume(id, next) ==
  /\ speaks' = [speaks EXCEPT ![id] = next]
  /\ isSpeaking' = IF next.pc = "settled" THEN FinallyFlag(isSpeaking, next.path)
                   ELSE isSpeaking
  /\ silState' = IF next.pc = "settled" THEN FinallyState(silState, next.path)
                 ELSE silState
  /\ UNCHANGED <<bootVars, state, timers, silenceTimer, sttVars, sinceArm, idle,
                 stateLog>>
  /\ UNCHANGED nSpeaks

FetchSettle(id) ==
  /\ Running
  /\ speaks[id].pc = "fetch"
  /\ \E out \in Mp3Sizes \cup {-1} :
       SpeakResume(id, AfterFetch(speaks[id], out, isSpeaking))
  /\ dropped' = FALSE
  /\ UNCHANGED wiretap
  /\ sttIn' = <<>>
  /\ sttMsg' = <<>>
  /\ sttOut' = <<>>

ConvertSettle(id) ==
  /\ Running
  /\ speaks[id].pc = "convert"
  /\ \E out \in PcmByteLens \cup {-1} :
       SpeakResume(id, AfterConvert(speaks[id], out, isSpeaking))
  /\ dropped' = FALSE
  /\ UNCHANGED wiretap
  /\ sttIn' = <<>>
  /\ sttMsg' = <<>>
  /\ sttOut' = <<>>

CaptureSettle(id) ==
  /\ Running
  /\ speaks[id].pc = "send"
  /\ \E ok \in BOOLEAN :
       SpeakResume(id, AfterCapture(speaks[id], ok, isSpeaking))
  /\ dropped' = FALSE
  /\ UNCHANGED wiretap
  /\ sttIn' = <<>>
  /\ sttMsg' = <<>>
  /\ sttOut' = <<>>

\* ------------------------------------ the caller resumed after speak()
Continue(id) ==
  LET s == speaks[id]
      ok == s.result = "resolved"
  IN /\ mainpc \in {"greeting", "ready"}
     /\ s.pc = "settled"
     /\ speaks' = Returned(speaks, id)
     /\ state' = IF s.kind = "reply" /\ ok THEN "LISTENING" ELSE state
     /\ silState' = IF s.kind = "reply" /\ ok THEN "LISTENING" ELSE silState
     /\ stateLog' = IF s.kind = "reply" /\ ok THEN Logged(stateLog, "LISTENING")
                    ELSE stateLog
     /\ timers' = IF s.kind = "reminder" /\ ok
                  THEN ArmedTimers(timers, silenceTimer) ELSE timers
     /\ silenceTimer' = IF s.kind = "reminder" /\ ok THEN Len(timers')
                        ELSE silenceTimer
     /\ sinceArm' = IF s.kind = "reminder" /\ ok THEN 0 ELSE sinceArm
     /\ mainpc' = IF s.kind = "greeting" THEN (IF ok THEN "ready" ELSE "exited")
                  ELSE mainpc
     /\ UNCHANGED <<audioSource, speakCallback, audioStream, isSpeaking, sttVars,
                    idle>>
  /\ dropped' = FALSE
  /\ UNCHANGED wiretap
  /\ sttIn' = <<>>
  /\ sttMsg' = <<>>
  /\ sttOut' = <<>>
  /\ UNCHANGED nSpeaks

\* ------------------------------------------------ the watchdog's timeout
TimerExpire(i) ==
  /\ Running
  /\ i \in 1..Len(timers)
  /\ timers[i] = 0
  /\ timers' = TimersAfterExpire(timers, i)
  /\ silenceTimer' = HandleAfterExpire(silenceTimer, i)
  /\ IF ReminderDue(silState, speakCallback)
     THEN /\ HasFree
          /\ speaks' = [speaks EXCEPT
                 ![NextId] = SpeakBegin("reminder", REMINDER, audioSource, state)]
          /\ nSpeaks' = nSpeaks + 1
          /\ isSpeaking' = (audioSource \/ isSpeaking)
          /\ silState' = IF audioSource THEN "SPEAKING" ELSE silState
          /\ idle' = 0
     ELSE UNCHANGED <<speaks, nSpeaks, isSpeaking, silState, idle>>
  /\ sinceArm' = IF timers' = <<>> THEN 0 ELSE sinceArm
  /\ UNCHANGED <<bootVars, state, sttVars, stateLog>>
  /\ dropped' = FALSE
  /\ UNCHANGED wiretap
  /\ sttIn' = <<>>
  /\ sttMsg' = <<>>
  /\ sttOut' = <<>>

\* ----------------------------------------------------------- the clock
Tick ==
  /\ Running
  /\ \A i \in 1..Len(timers) : timers[i] > 0
  /\ timers' = [i \in 1..Len(timers) |-> timers[i] - 1]
  /\ sinceArm' = IF timers # <<>> THEN Min(sinceArm + 1, WatchdogTicks) ELSE sinceArm
  /\ idle' = IF Quiescent THEN Min(idle + 1, WatchdogTicks + 1) ELSE 0
  /\ UNCHANGED <<bootVars, state, silState, isSpeaking, speaks, silenceTimer,
                 sttVars, stateLog>>
  /\ dropped' = FALSE
  /\ UNCHANGED wiretap
  /\ sttIn' = <<>>
  /\ sttMsg' = <<>>
  /\ sttOut' = <<>>
  /\ UNCHANGED nSpeaks

\* ------------------------------------------------- stt.ts: the connection
\* ws.on("open")
WsOpen ==
  /\ Running
  /\ wsState = "CONNECTING"
  /\ wsState' = "OPEN"
  /\ intervals' = IntervalsAfterOpen(intervals, keepaliveTimer)
  /\ keepaliveTimer' = Len(intervals')
  /\ UNCHANGED <<bootVars, state, silState, isSpeaking, speaks, timers,
                 silenceTimer, reconnectTimer, stale, sinceArm, idle, stateLog>>
  /\ dropped' = FALSE
  /\ UNCHANGED wiretap
  /\ sttIn' = <<>>
  /\ sttMsg' = <<>>
  /\ sttOut' = <<>>
  /\ UNCHANGED nSpeaks

\* one run of the keepalive interval's callback
KeepaliveFire(i) ==
  /\ Running
  /\ i \in 1..Len(intervals)
  /\ UNCHANGED intervals
  /\ sttOut' = Tapped(wiretap, KeepaliveSent(wsState))
  /\ UNCHANGED <<bootVars, state, silState, isSpeaking, speaks, timers,
                 silenceTimer, wsState, keepaliveTimer, reconnectTimer, stale,
                 sinceArm, idle, stateLog>>
  /\ dropped' = FALSE
  /\ UNCHANGED wiretap
  /\ sttIn' = <<>>
  /\ sttMsg' = <<>>
  /\ UNCHANGED nSpeaks

\* ws.on("error"): logged; the socket is failed and its close event follows
WsError ==
  /\ Running
  /\ wsState \in {"CONNECTING", "OPEN"}
  /\ wsState' = "FAILED"
  /\ reconnectTimer' = reconnectTimer \o ReconnectsOnError
  /\ UNCHANGED <<bootVars, state, silState, isSpeaking, speaks, timers,
                 silenceTimer, keepaliveTimer, intervals, stale, sinceArm, idle,
                 stateLog>>
  /\ dropped' = FALSE
  /\ UNCHANGED wiretap
  /\ sttIn' = <<>>
  /\ sttMsg' = <<>>
  /\ sttOut' = <<>>
  /\ UNCHANGED nSpeaks

\* ws.on("close")
WsClose ==
  /\ Running
  /\ Live(wsState)
  /\ wsState' = "CLOSED"
  /\ intervals' = ClearInterval(intervals, keepaliveTimer)
  /\ keepaliveTimer' = 0
  /\ reconnectTimer' = reconnectTimer \o ReconnectsOnClose(dead)
  /\ UNCHANGED <<bootVars, state, silState, isSpeaking, speaks, timers,
                 silenceTimer, stale, sinceArm, idle, stateLog>>
  /\ dropped' = FALSE
  /\ UNCHANGED wiretap
  /\ sttIn' = <<>>
  /\ sttMsg' = <<>>
  /\ sttOut' = <<>>
  /\ UNCHANGED nSpeaks

\* the reconnect timeout: connect() makes a new socket and assigns it to ws
Reconnect ==
  /\ Running
  /\ reconnectTimer # <<>>
  /\ reconnectTimer' = Tail(reconnectTimer)
  /\ stale' = stale + (IF Live(wsState) THEN 1 ELSE 0)
  /\ wsState' = "CONNECTING"
  /\ UNCHANGED <<bootVars, state, silState, isSpeaking, speaks, timers,
                 silenceTimer, keepaliveTimer, intervals, sinceArm, idle, stateLog>>
  /\ dropped' = FALSE
  /\ UNCHANGED wiretap
  /\ sttIn' = <<>>
  /\ sttMsg' = <<>>
  /\ sttOut' = <<>>
  /\ UNCHANGED nSpeaks

\* ------------------------------------------------------------------ Next
Next ==
  \/ Boot
  \/ \E ok \in BOOLEAN : Connected(ok)
  \/ \E ok \in BOOLEAN : Registered(ok)
  \/ TrackSubscribed
  \/ \E frame \in Frames : OnFrame(frame)
  \/ \E m \in Messages : OnMessage(m)
  \/ \E id \in Ids : FetchSettle(id)
  \/ \E id \in Ids : ConvertSettle(id)
  \/ \E id \in Ids : CaptureSettle(id)
  \/ \E id \in Ids : Continue(id)
  \/ \E i \in 1..Len(timers) : TimerExpire(i)
  \/ Tick
  \/ WsOpen
  \/ \E i \in 1..Len(intervals) : KeepaliveFire(i)

\* the coordinator, the pipeline and the watchdog over a connection that stays
\* open once it has opened
Spec == Init /\ [][Next]_vars

\* the same with the transcription connection closing and reconnecting
SttNext == Next \/ WsError \/ WsClose \/ Reconnect
SttSpec == Init /\ [][SttNext]_vars

\* the transcription client and the frame loop in a run that ends when the
\* watchdog comes due, with what goes to the socket recorded
ClientNext ==
  \/ Boot
  \/ \E ok \in BOOLEAN : Connected(ok)
  \/ \E ok \in BOOLEAN : Registered(ok)
  \/ TrackSubscribed
  \/ \E frame \in Frames : OnFrame(frame)
  \/ \E m \in Messages : OnMessage(m)
  \/ \E id \in Ids : FetchSettle(id)
  \/ \E id \in Ids : ConvertSettle(id)
  \/ \E id \in Ids : CaptureSettle(id)
  \/ \E id \in Ids : Continue(id)
  \/ Tick
  \/ WsOpen
  \/ \E i \in 1..Len(intervals) : KeepaliveFire(i)
  \/ WsError
  \/ WsClose
  \/ Reconnect

ClientInit == Loaded /\ wiretap = TRUE

ClientSpec == ClientInit /\ [][ClientNext]_vars

\* the same without the recording; every due reconnect timeout fires and every
\* caller of a settled speak() resumes
ClientFairSpec ==
  /\ Init /\ [][ClientNext]_vars
  /\ WF_vars(Reconnect)
  /\ \A id \in Ids : WF_vars(Continue(id))

Progress(id) ==
  FetchSettle(id) \/ ConvertSettle(id) \/ CaptureSettle(id) \/ Continue(id)

\* every pending fetch, transcode, frame hand-off and continuation settles
FairSpec == Spec /\ \A id \in Ids : WF_vars(Progress(id))

\* ------------------------------- tts.ts and silence.ts called on their own
\* what a caller of the exported functions leaves alone
callerVars == <<mainpc, speakCallback, audioStream, state, timers, silenceTimer,
                sttVars, wiretap, sinceArm, idle, stateLog, dropped, sttIn,
                sttMsg, sttOut>>

\* no caller of a settled speak() is waiting to resume
NoneSettled == \A id \in Ids : speaks[id].pc # "settled"

\* registerRoom(room) up to its await: roomInstance and audioSource are set
RegisterRoomCalled ==
  /\ NoneSettled
  /\ ~audioSource
  /\ audioSource' = TRUE
  /\ UNCHANGED <<callerVars, silState, isSpeaking, speaks, nSpeaks>>

\* speak(text) called, up to its return or its first await
SpeakCalled(text) ==
  /\ NoneSettled
  /\ HasFree
  /\ speaks' = [speaks EXCEPT ![NextId] = SpeakBegin("call", text, audioSource, state)]
  /\ nSpeaks' = nSpeaks + 1
  /\ isSpeaking' = (audioSource \/ isSpeaking)
  /\ silState' = IF audioSource THEN "SPEAKING" ELSE silState
  /\ UNCHANGED <<callerVars, audioSource>>

\* stopSpeaking()
StopSpeakingCalled ==
  /\ NoneSettled
  /\ isSpeaking' = FALSE
  /\ speaks' = MarkStopped(speaks)
  /\ UNCHANGED <<callerVars, audioSource, silState, nSpeaks>>

\* updateState(current)
UpdateStateCalled(current) ==
  /\ NoneSettled
  /\ silState' = current
  /\ UNCHANGED <<callerVars, audioSource, isSpeaking, speaks, nSpeaks>>

\* a pending fetch, transcode or frame hand-off of a called speak() settles
CalledSettle(id) ==
  /\ NoneSettled
  /\ \/ /\ speaks[id].pc = "fetch"
        /\ \E out \in Mp3Sizes \cup {-1} :
             SpeakResume(id, AfterFetch(speaks[id], out, isSpeaking))
     \/ /\ speaks[id].pc = "convert"
        /\ \E out \in PcmByteLens \cup {-1} :
             SpeakResume(id, AfterConvert(speaks[id], out, isSpeaking))
     \/ /\ speaks[id].pc = "send"
        /\ \E ok \in BOOLEAN :
             SpeakResume(id, AfterCapture(speaks[id], ok, isSpeaking))
  /\ UNCHANGED <<wiretap, dropped, sttIn, sttMsg, sttOut>>

\* the caller resumes after the promise of speak() settled
CalledReturn(id) ==
  /\ speaks[id].pc = "settled"
  /\ speaks' = Returned(speaks, id)
  /\ UNCHANGED <<callerVars, audioSource, silState, isSpeaking, nSpeaks>>

CallerNext ==
  \/ RegisterRoomCalled
  \/ \E text \in {GREETING, REMINDER} : SpeakCalled(text)
  \/ StopSpeakingCalled
  \/ \E current \in {"LISTENING", "PROCESSING", "SPEAKING"} : UpdateStateCalled(current)
  \/ \E id \in Ids : CalledSettle(id)
  \/ \E id \in Ids : CalledReturn(id)

\* the exported functions of tts.ts and silence.ts called in any order on the
\* modules as loaded, startAgent() never run
CallerSpec == Init /\ [][CallerNext]_vars


\* =============================================================== claims

\* C1: once stopSpeaking() has been called during a speak() execution, no frame
\* of that utterance is handed to the sink any more (the one already handed to
\* captureFrame is the only one still to arrive), whatever happens later.
C1_NoFrameAfterStop == \A id \in Ids : ~speaks[id].late

\* C2: at most one speak() execution is inside its frame loop with a frame
\* handed to the sink at any time.
C2_OneSender == Cardinality({id \in Ids : speaks[id].pc = "send"}) <= 1

histVars == <<sinceArm, idle, stateLog>>

\* a speak() execution begins at id in this step
Started(id) == speaks[id].pc = "none" /\ speaks'[id].pc # "none"

\* C3: a final transcript handed to the coordinator while its state is not
\* Listening changes nothing and starts no speak(); a reply's speak() begins
\* only in a step taken from Listening.
C3_DroppedOutsideListening ==
  [][ /\ \A m \in Messages :
           (OnMessage(m) /\ IsFinal(m) /\ state # "LISTENING")
              => (UNCHANGED progVars /\ UNCHANGED histVars)
      /\ \A id \in Ids :
           (Started(id) /\ speaks'[id].kind = "reply") => state = "LISTENING"
    ]_vars

C3_Witness ==
  /\ dropped
  /\ state = "SPEAKING"
  /\ \E id \in Ids : speaks[id].kind = "reply" /\ InFlight(speaks[id])

\* C4: a final transcript T accepted in Listening takes state through
\* Listening, Processing, Speaking and, when its speak() has settled, Listening;
\* it starts exactly one speak(), with the text "You said: T", and state is
\* Speaking when that speak() begins its fetch.
C4_ReplyTurn ==
  [][ /\ \A m \in Messages :
           (OnMessage(m) /\ IsFinal(m) /\ state = "LISTENING")
              => /\ stateLog' = <<"LISTENING", "PROCESSING", "SPEAKING">>
                 /\ state' = "SPEAKING"
                 /\ Cardinality({id \in Ids : Started(id)}) = 1
                 /\ \A id \in Ids :
                      Started(id)
                        => /\ speaks'[id].pc = "fetch"
                           /\ speaks'[id].text = <<"You said: ", m.transcript>>
                           /\ speaks'[id].stateAtFetch = "SPEAKING"
                 /\ \A id \in Ids : ~Started(id) => speaks'[id] = speaks[id]
      /\ \A id \in Ids :
           (Continue(id) /\ speaks[id].kind = "reply")
              => /\ state' = "LISTENING"
                 /\ stateLog' = <<"LISTENING", "PROCESSING", "SPEAKING", "LISTENING">>
    ]_vars

\* an uninterrupted reply has played to its end and its caller is about to resume
C4_Witness ==
  /\ stateLog = <<"LISTENING", "PROCESSING", "SPEAKING">>
  /\ state = "SPEAKING"
  /\ \E id \in Ids :
       /\ speaks[id].kind = "reply"
       /\ speaks[id].pc = "settled"
       /\ speaks[id].path = "complete"
       /\ ~speaks[id].stopped
       /\ speaks[id].sent = 2

Closed == state = "LISTENING" /\ \A id \in Ids : ~Unfinished(speaks[id])

C6_ResetOnEveryExit ==
  [][ \A id \in Ids :
        (InFlight(speaks[id]) /\ speaks'[id].pc = "settled")
           => /\ isSpeaking' = FALSE
              /\ silState' = "LISTENING"
              /\ speaks'[id].resets = 1
    ]_vars

\* a speak() has just ended through its catch clause, after one frame was sent
C6_Witness ==
  /\ \E id \in Ids : /\ speaks[id].pc = "settled"
                      /\ speaks[id].path = "error"
                      /\ speaks[id].sent = 1
                      /\ speaks[id].resets = 1
  /\ ~isSpeaking
  /\ silState = "LISTENING"

\* C7: a fetched payload under 100 bytes, or an empty decoded PCM, ends the
\* speak() with no frame handed to the sink, its promise resolved, the flag
\* false and the shared AgentState Listening.
C7_DegenerateInput ==
  [][ \A id \in Ids :
        ( /\ InFlight(speaks[id])
          /\ speaks'[id].pc = "settled"
          /\ (speaks'[id].mp3 \in 0..99 \/ speaks'[id].pcm = 0) )
           => /\ speaks'[id].handed = 0
              /\ speaks'[id].sent = 0
              /\ speaks'[id].result = "resolved"
              /\ isSpeaking' = FALSE
              /\ silState' = "LISTENING"
    ]_vars

\* a speak() has just ended on an empty decoded PCM
C7_Witness ==
  \E id \in Ids : /\ speaks[id].pc = "settled"
                  /\ speaks[id].mp3 = 100
                  /\ speaks[id].pcm = 0
                  /\ speaks[id].path = "empty"
                  /\ speaks[id].handed = 0

\* C8: in quiescent Listening, silence never lasts longer than the watchdog
\* duration without a reminder being started.
C8_ReminderWithinDuration == idle <= WatchdogTicks

\* C9: an expiry in Listening starts the reminder and arms nothing; an expiry
\* outside Listening changes nothing but the timer, which is gone; and a timer
\* comes to be pending only by an explicit arm: startup, an active frame, or
\* the continuation of a reminder whose speak() has settled.
C9_Expiry ==
  [][ /\ \A i \in 1..Len(timers) :
           TimerExpire(i)
             => /\ Len(timers') = Len(timers) - 1
                /\ IF silState = "LISTENING"
                   THEN /\ Cardinality({id \in Ids : Started(id)}) = 1
                        /\ \A id \in Ids :
                             Started(id) => /\ speaks'[id].kind = "reminder"
                                            /\ speaks'[id].text = REMINDER
                   ELSE UNCHANGED <<speaks, isSpeaking, silState, state>>
      /\ (timers = <<>> /\ timers' # <<>>)
           => \/ Registered(TRUE)
              \/ \E frame \in Frames : hasAudioEnergy(frame) /\ OnFrame(frame)
              \/ \E id \in Ids : /\ Continue(id)
                                  /\ speaks[id].kind = "reminder"
                                  /\ speaks[id].pc = "settled"
    ]_vars

\* the watchdog has fired in Listening: its reminder is in flight, no timer pending
C9_Witness ==
  /\ timers = <<>>
  /\ \E id \in Ids : speaks[id].kind = "reminder" /\ InFlight(speaks[id])

\* C10: at most one timer is pending, it is the handle's, and it expires a full
\* duration after the last resetSilenceTimer() call.
C10_OneTimer ==
  /\ Len(timers) <= 1
  /\ timers # <<>> => /\ silenceTimer = 1
                      /\ timers[1] + sinceArm = WatchdogTicks

\* no transcript was ever handled, so the second speak() was a reminder: the
\* watchdog expired, was armed again, and its timer is one tick from due
C10_Witness ==
  /\ wsState = "CONNECTING"
  /\ nSpeaks = 2
  /\ \A id \in Ids : speaks[id].pc = "none"
  /\ timers = <<1>>
  /\ sinceArm = WatchdogTicks - 1

\* the frame's RMS is at or above the threshold / strictly above it
RmsAtOrAbove(frame) ==
  SumSq(frame) >= SPEECH_RMS_THRESHOLD * SPEECH_RMS_THRESHOLD * Len(frame)
RmsAbove(frame) ==
  SumSq(frame) > SPEECH_RMS_THRESHOLD * SPEECH_RMS_THRESHOLD * Len(frame)

\* this step armed the watchdog afresh / left it as it was
Rearmed ==
  timers' = <<WatchdogTicks>> /\ silenceTimer' = 1 /\ sinceArm' = 0
NotRearmed == UNCHANGED <<timers, silenceTimer, sinceArm>>

C12_InterruptInSpeaking ==
  [][ \A frame \in Frames :
        (OnFrame(frame) /\ state = "SPEAKING")
          => IF hasAudioEnergy(frame)
             THEN /\ isSpeaking' = FALSE
                  /\ state' = "LISTENING"
                  /\ \A id \in Ids : InFlight(speaks[id]) => speaks'[id].stopped
             ELSE UNCHANGED <<isSpeaking, state, silState, speaks>>
    ]_vars

\* the 16-bit samples a buffer of bytes holds, low byte first
RECURSIVE SamplesOf(_)
SamplesOf(bytes) ==
  IF Len(bytes) < 2 THEN <<>>
  ELSE LET u == bytes[1] + 256 * bytes[2]
       IN <<IF u >= 32768 THEN u - 65536 ELSE u>> \o SamplesOf(Tail(Tail(bytes)))

KeepAlive == [type |-> "KeepAlive", data |-> <<>>]

\* C15: in every state where the connection is open exactly one keepalive
\* interval is running, of period KEEPALIVE_MS; each run of its callback sends
\* exactly one keepalive message if the connection is open and nothing
\* otherwise; a frame passing through the frame loop leaves the interval alone;
\* and a keepalive message goes to the socket only from that callback and only
\* while the connection is open.
C15_Keepalive ==
  /\ [](wsState = "OPEN" => (intervals = <<KEEPALIVE_MS>> /\ keepaliveTimer = 1))
  /\ [][ /\ (\E i \in 1..Len(intervals) : KeepaliveFire(i))
              => sttOut' = IF wsState = "OPEN" THEN <<KeepAlive>> ELSE <<>>
         /\ (\E frame \in Frames : OnFrame(frame))
              => UNCHANGED <<intervals, keepaliveTimer>>
         /\ \A k \in 1..Len(sttOut') :
              sttOut'[k] = KeepAlive
                => ( /\ wsState = "OPEN"
                     /\ \E i \in 1..Len(intervals) : KeepaliveFire(i) )
       ]_vars

\* a keepalive has just been sent on an open connection while no audio stream
\* exists, so that sendAudio is not being called at all
C15_Witness ==
  /\ sttOut = <<KeepAlive>>
  /\ wsState = "OPEN"
  /\ ~audioStream

\* C16: a frame handed to sendAudio while the connection is not open sends
\* nothing, changes nothing in the transcription client (no buffer, no timer, no
\* socket state) and leaves the frame loop running; and whatever audio a step
\* sends is the audio handed to sendAudio in that same step, on an open
\* connection, so that audio dropped earlier is never delivered, in particular
\* not by the steps that reconnect and reopen the socket.
C16_NoOpWhenNotOpen ==
  [][ /\ ((\E frame \in Frames : OnFrame(frame)) /\ wsState # "OPEN")
           => ( /\ sttIn' # <<>>
                /\ sttOut' = <<>>
                /\ UNCHANGED sttVars
                /\ UNCHANGED <<mainpc, audioStream>> )
      /\ (WsOpen \/ Reconnect) => sttOut' = <<>>
      /\ \A k \in 1..Len(sttOut') :
           sttOut'[k].type = "audio"
             => ( /\ wsState = "OPEN"
                  /\ Len(sttOut') = Len(sttIn')
                  /\ sttOut'[k].data = sttIn'[k] )
    ]_vars

\* a frame has just been handed to sendAudio in a reconnect window: nothing
\* went out and the reconnect is still pending
C16_Witness ==
  /\ sttIn = <<PcmBytes(<<301, -301>>)>>
  /\ sttOut = <<>>
  /\ wsState = "CLOSED"
  /\ reconnectTimer = <<RECONNECT_MS>>

\* onTranscript was called in this step: it either returned at its guard or
\* began a reply
Invoked == dropped' \/ \E id \in Ids : Started(id)

\* C17: the message handler calls onTranscript for a message if and only if the
\* message parses, its transcript is non-empty and its finality flag is true;
\* for every other message nothing in the program changes; and no message
\* changes the connection, the keepalive interval or the pending reconnect, or
\* sends anything.
C17_OnTranscriptIff ==
  [][ \A m \in Messages :
        OnMessage(m)
          => ( /\ Invoked <=> ( /\ m.parses
                                /\ m.transcript # ""
                                /\ m.speech_final = TRUE )
               /\ ~Invoked => UNCHANGED progVars
               /\ UNCHANGED sttVars
               /\ sttOut' = <<>> )
    ]_vars

\* an interim result has just been handled while the agent was listening with
\* no speak() unfinished: the guard would have let it through, yet nothing began
C17_Witness ==
  /\ sttMsg = <<[parses |-> TRUE, transcript |-> "hello", speech_final |-> FALSE]>>
  /\ wsState = "OPEN"
  /\ state = "LISTENING"
  /\ ~dropped
  /\ \A id \in Ids : ~Unfinished(speaks[id])

\* C18: every frame in the sink's hands has exactly SAMPLES_PER_FRAME samples
\* in a zero-offset copy of its own; the k-th frame handed over is the chunk
\* that starts at sample (k - 1) * SAMPLES_PER_FRAME of the decoded PCM, each
\* handed over once the one before it was sent; and a speak() whose loop ran to
\* its end has sent floor(n / SAMPLES_PER_FRAME) frames of its n samples, the
\* trailing partial chunk never handed over.
C18_Framing ==
  \A id \in Ids :
    LET s == speaks[id]
    IN /\ s.pc = "send"
            => ( /\ s.frame.length = SAMPLES_PER_FRAME
                 /\ s.frame.byteOffset = 0
                 /\ s.frame.copy
                 /\ s.handed = s.sent + 1
                 /\ s.frame.first = (s.handed - 1) * SAMPLES_PER_FRAME
                 /\ s.frame.first + s.frame.length <= Int16Length(s.pcm) )
       /\ (s.pc = "settled" /\ s.path = "complete")
            => ( /\ s.sent = Int16Length(s.pcm) \div SAMPLES_PER_FRAME
                 /\ s.handed = s.sent
                 /\ Int16Length(s.pcm) - s.sent * SAMPLES_PER_FRAME
                      \in 0..(SAMPLES_PER_FRAME - 1) )

\* the second frame of a decoded PCM of 1000 samples is in the sink's hands,
\* the first one sent
C18_Witness ==
  \E id \in Ids :
    /\ speaks[id].pc = "send"
    /\ Int16Length(speaks[id].pcm) = 1000
    /\ speaks[id].sent = 1
    /\ speaks[id].frame.first = SAMPLES_PER_FRAME

\* C19: in every state the sockets that are connecting or connected, together
\* with the reconnect timeouts still to fire, number at most one, and no live
\* socket exists besides the one ws refers to; at most one keepalive interval
\* is running; and whenever the connection is closed, or the next one is still
\* connecting, no keepalive interval is running, so that the interval of a
\* closed connection never lives to see the next one open.
C19_OneConnection ==
  /\ stale = 0
  /\ Len(reconnectTimer) + (IF Live(wsState) THEN 1 ELSE 0) <= 1
  /\ Len(intervals) <= 1
  /\ wsState \in {"NONE", "CLOSED", "CONNECTING"}
       => (intervals = <<>> /\ keepaliveTimer = 0)

\* a reconnect attempt is under way after a connection that had delivered a
\* transcript closed: ws is connecting again while the reply is outstanding
C19_Witness ==
  /\ wsState = "CONNECTING"
  /\ reconnectTimer = <<>>
  /\ intervals = <<>>
  /\ \E id \in Ids : speaks[id].kind = "reply"

\* C20: a speak() execution that stopSpeaking() reached while it was awaiting
\* its fetch does not go on to transcoding when the fetch settles, and one that
\* stopSpeaking() reached while it was awaiting its fetch or its transcoding
\* does not hand a frame to the sink when the transcoding settles.
C20_StopPreventsNextStage ==
  [][ \A id \in Ids :
        /\ (FetchSettle(id) /\ speaks[id].stopped) => speaks'[id].pc # "convert"
        /\ (ConvertSettle(id) /\ speaks[id].stopped) => speaks'[id].pc # "send"
    ]_vars

\* a pending fetch, transcode or frame hand-off of speak() execution id settles
Settles(id) == FetchSettle(id) \/ ConvertSettle(id) \/ CaptureSettle(id)

\* C21: a speak() that leaves by a failed fetch, transcode or frame hand-off
\* still resolves, and the step in which it fails leaves startAgent(), the
\* frame loop, the coordinator's state and the watchdog's timer as they were;
\* when its caller resumes the process does not exit, a reply's caller puts the
\* coordinator back in Listening and a reminder's caller re-arms the watchdog;
\* a message that does not parse changes nothing; and a final transcript
\* arriving in Listening begins a reply.
C21_FailuresContained ==
  [][ /\ \A id \in Ids :
           (InFlight(speaks[id]) /\ speaks'[id].pc = "settled" /\ Settles(id))
              => speaks'[id].result = "resolved"
      /\ \A id \in Ids :
           (InFlight(speaks[id]) /\ speaks'[id].path = "error" /\ Settles(id))
              => UNCHANGED <<mainpc, audioStream, state, timers, silenceTimer>>
      /\ \A id \in Ids :
           (speaks[id].path = "error" /\ Continue(id))
              => ( /\ mainpc' # "exited"
                   /\ UNCHANGED audioStream
                   /\ speaks[id].kind = "reply"
                        => (state' = "LISTENING" /\ silState' = "LISTENING")
                   /\ speaks[id].kind = "reminder"
                        => ( /\ silenceTimer' = Len(timers')
                             /\ silenceTimer' > 0
                             /\ timers'[silenceTimer'] = WatchdogTicks ) )
      /\ \A m \in Messages :
           (~m.parses /\ OnMessage(m)) => UNCHANGED progVars
      /\ \A m \in Messages :
           (state = "LISTENING" /\ m.parses /\ m.transcript # ""
              /\ m.speech_final = TRUE /\ OnMessage(m))
              => \E id \in Ids : Started(id) /\ speaks'[id].kind = "reply"
    ]_vars

\* a reply's speak() has failed and resolved; its caller is about to resume
C21_Witness ==
  /\ state = "SPEAKING"
  /\ \E id \in Ids :
       /\ speaks[id].kind = "reply"
       /\ speaks[id].pc = "settled"
       /\ speaks[id].path = "error"
       /\ speaks[id].result = "resolved"

\* the startup greeting's speak() is at one of its awaits
GreetingInFlight ==
  \E id \in Ids : speaks[id].kind = "greeting" /\ InFlight(speaks[id])

\* C22: the step of startAgent() that begins the greeting's speak() has by then
\* started the transcription client, registered the track subscription handler
\* and armed the watchdog; and at every point where the greeting is at one of
\* its awaits and an event can be handled (no caller of a settled speak() is
\* about to resume) the transcription client exists, a track subscription is
\* handled (its frame loop starts) and a final transcript arriving on the open
\* socket is handled.
C22_HandlersBeforeGreeting ==
  /\ [][ (mainpc = "registering" /\ mainpc' = "greeting")
           => ( /\ wsState' = "CONNECTING"
                /\ HandlerRegistered(mainpc')
                /\ timers' = <<WatchdogTicks>>
                /\ silenceTimer' = 1
                /\ \E id \in Ids : Started(id) /\ speaks'[id].kind = "greeting" )
       ]_vars
  /\ []((GreetingInFlight /\ Running)
          => ( /\ wsState # "NONE"
               /\ ~audioStream => ENABLED TrackSubscribed
               /\ (wsState = "OPEN" /\ HasFree)
                    => \A m \in Messages :
                         (m.parses /\ m.transcript # "" /\ m.speech_final = TRUE)
                            => ENABLED OnMessage(m) ))

\* during the greeting a track subscription has been handled, its frame loop is
\* running, and a final transcript has been handled: its reply is in flight too
C22_Witness ==
  /\ GreetingInFlight
  /\ audioStream
  /\ \E id \in Ids : speaks[id].kind = "reply" /\ InFlight(speaks[id])

\* C23: a speak() called while no audio sink is registered returns at once: the
\* interruption flag and both copies of the AgentState stay as they were, and
\* the execution is over without a fetch, a transcode, a frame handed to the
\* sink or a run of the finally clause; nothing of it is ever pending.
C23_NoOpBeforeRegistration ==
  /\ [][ \A text \in {GREETING, REMINDER} :
           (SpeakCalled(text) /\ ~audioSource)
              => ( /\ UNCHANGED <<isSpeaking, silState, state, audioSource>>
                   /\ \A id \in Ids :
                        Started(id)
                          => ( /\ speaks'[id].pc = "settled"
                               /\ speaks'[id].result = "resolved"
                               /\ speaks'[id].mp3 = -1
                               /\ speaks'[id].pcm = -1
                               /\ speaks'[id].handed = 0
                               /\ speaks'[id].sent = 0
                               /\ speaks'[id].resets = 0 )
                   /\ \A id \in Ids : ~Started(id) => speaks'[id] = speaks[id] )
       ]_vars
  /\ [](~audioSource => \A id \in Ids : ~InFlight(speaks[id]))

\* speak() has just returned without a sink while the watchdog module's state
\* was PROCESSING: the state is still PROCESSING and the flag still down
C23_Witness ==
  /\ ~audioSource
  /\ silState = "PROCESSING"
  /\ ~isSpeaking
  /\ \E id \in Ids : speaks[id].pc = "settled" /\ speaks[id].path = "skipped"

\* C24: at every point where a frame, a transcript or a timer callback can
\* start (the process is up and no caller of a settled speak() is about to
\* resume), the coordinator's state and the watchdog module's state are equal.
C24_StatesAgree == Running => state = silState

\* C25: in every step in which a timer expiry starts a reminder's speak(), no
\* speak() execution that began earlier is still at one of its awaits.
C25_NoReminderOverSpeak ==
  [][ (\E i \in 1..Len(timers) :
         /\ TimerExpire(i)
         /\ \E id \in Ids : Started(id) /\ speaks'[id].kind = "reminder")
        => \A id \in Ids : ~InFlight(speaks[id])
    ]_vars

====
